---- MODULE Spec2Model ----
(***************************************************************************)
(* A model of the Sisters Promise API server (src/server.js) and of the    *)
(* front-end client that calls it (src/assets/js/square-integration.js).   *)
(*                                                                         *)
(* JavaScript values are tagged records: Str(<<"a","b">>) is the string    *)
(* "ab" (a sequence of one-character strings), Num(h) is the number h/2    *)
(* (halves, so that 1.5 is a value), Undefined is undefined.               *)
(***************************************************************************)
EXTENDS Integers, Sequences, FiniteSets, TLC

VARIABLES
    hits,       \* hits[p][c]: the MemoryStore count of limiter p for client key c
    sent,       \* sent[p][c]: requests of c sent to routes of policy p since p's window began (history)
    slots,      \* slots[i]: a request suspended on its upstream call, or Idle
    last,       \* the request whose handler ran to completion most recently
    acks,       \* the references of the contact acknowledgments sent, in order (history)
    payments,   \* the idempotency keys for which the payments provider holds a payment
    env,        \* process.env: accessToken, locationId, development
    cli,        \* the front-end client inside processPayment / fetchWithRetry
    net,        \* the HTTP exchange of the client's current fetch
    sanIn,      \* sanitizeInput under test: its input
    sanPc,      \* "start", "once", "twice"
    sanOut,     \* sanitizeInput(sanIn)
    sanOut2,    \* sanitizeInput(sanitizeInput(sanIn))
    err,        \* the error middleware under test: the error passed to next(err)
    res,        \* the response the error middleware sent for err
    items,      \* the carousel: the number of its .carousel-item elements
    currentIndex,   \* CustomCarousel.currentIndex
    active,     \* the indexes of the items that carry the class 'active'
    trail       \* the last navigation calls, each with the index it started from (history)

serverVars == <<hits, sent, slots, last, acks, payments, env>>
clientVars == <<cli, net>>
sanVars == <<sanIn, sanPc, sanOut, sanOut2>>
errVars == <<err, res>>
carouselVars == <<items, currentIndex, active, trail>>
unitVars == <<sanVars, errVars, carouselVars>>
vars ==
    <<hits, sent, slots, last, acks, payments, env, cli, net, sanIn, sanPc, sanOut, sanOut2,
      err, res, items, currentIndex, active, trail>>

(***************************************************************************)
(* Values                                                                  *)
(***************************************************************************)
Undefined == [t |-> "undefined"]
Str(s) == [t |-> "string", s |-> s]
Num(h) == [t |-> "number", h |-> h]
Rep(ch, n) == [i \in 1..n |-> ch]

\* !v of JavaScript for the values of the model
Falsy(v) ==
    \/ v.t = "undefined"
    \/ v.t = "string" /\ v.s = <<>>
    \/ v.t = "number" /\ v.h = 0

(***************************************************************************)
(* sanitizeInput (src/server.js:81-87)                                     *)
(***************************************************************************)
SliceLimit == 500
WhiteSpace == {" ", "\t", "\n"}
StrippedChars == {"<", ">", "\"", "'"}

RECURSIVE TrimStart(_)
TrimStart(s) ==
    IF s # <<>> /\ Head(s) \in WhiteSpace THEN TrimStart(Tail(s)) ELSE s

RECURSIVE TrimEnd(_)
TrimEnd(s) ==
    IF s # <<>> /\ s[Len(s)] \in WhiteSpace THEN TrimEnd(SubSeq(s, 1, Len(s) - 1)) ELSE s

\* String.prototype.trim
Trim(s) == TrimEnd(TrimStart(s))

\* .replace(/[<>\"']/g, '')
StripChars(s) == SelectSeq(s, LAMBDA ch : ch \notin StrippedChars)

\* .slice(0, n)
Slice(s, n) == SubSeq(s, 1, IF Len(s) < n THEN Len(s) ELSE n)

sanitizeInput(input) ==
    IF input.t # "string" THEN input
    ELSE Str(Slice(StripChars(Trim(input.s)), SliceLimit))

(***************************************************************************)
(* The inputs sanitizeInput is tried on: every string over Alphabet of     *)
(* length at most MaxStrLen, the same strings around a long run of "a"     *)
(* that reaches the slice limit, and two values that are not strings.      *)
(***************************************************************************)
MaxStrLen == 2
MaxOverLimit == 1
Alphabet == {"a", " ", "<"}

ShortStrings == UNION {[1..n -> Alphabet] : n \in 0..MaxStrLen}

LongStrings ==
    {pre \o Rep("a", k) \o post :
        pre \in ShortStrings, post \in ShortStrings,
        k \in (SliceLimit - MaxStrLen - 1)..(SliceLimit + MaxOverLimit)}

SanInputs ==
    {Str(s) : s \in ShortStrings \cup LongStrings} \cup {Undefined, Num(2)}

SanIdle == Undefined

InitSan ==
    /\ sanIn = SanIdle
    /\ sanPc = "idle"
    /\ sanOut = SanIdle
    /\ sanOut2 = SanIdle

SanStart ==
    /\ sanIn \in SanInputs
    /\ sanPc = "start"
    /\ sanOut = SanIdle
    /\ sanOut2 = SanIdle

SanitizeOnce ==
    /\ sanPc = "start"
    /\ sanOut' = sanitizeInput(sanIn)
    /\ sanPc' = "once"
    /\ UNCHANGED <<sanIn, sanOut2, serverVars, clientVars, errVars, carouselVars>>

SanitizeTwice ==
    /\ sanPc = "once"
    /\ sanOut2' = sanitizeInput(sanOut)
    /\ sanPc' = "twice"
    /\ UNCHANGED <<sanIn, sanOut, serverVars, clientVars, errVars, carouselVars>>

(***************************************************************************)
(* Rate limiting (src/server.js:33-55; express-rate-limit 6.7.0 with its   *)
(* MemoryStore: one count per key, all counts cleared by an interval timer *)
(* every windowMs).                                                        *)
(***************************************************************************)
Clients == {"c1"}
Policies == {"general", "contact", "checkout"}

GeneralMax == 100
ContactMax == 5
CheckoutMax == 10

Max(p) ==
    CASE p = "general" -> GeneralMax
      [] p = "contact" -> ContactMax
      [] p = "checkout" -> CheckoutMax

\* how far past its maximum a count is driven
MaxOver == 2

\* mutant: the count read before a suspended request and written back after it
Increment_StaleRead(h, p, c) ==
    IF \E i \in DOMAIN slots : slots[i].stage # "idle" THEN h
    ELSE [h EXCEPT ![p][c] = @ + 1]

\* store.increment(key)
Increment(h, p, c) == [h EXCEPT ![p][c] = @ + 1]

\* mutant: only the first request past the maximum is refused
Exceeded_OnlyFirst(totalHits, maxHits) == totalHits = maxHits + 1

\* if (maxHits && totalHits > maxHits): the request is answered 429
Exceeded(totalHits, maxHits) == totalHits > maxHits

\* mutant: the contact route mounted with the checkout limiter as well
RouteLimiters_Shared(route) ==
    CASE route = "health" -> <<"general">>
      [] route = "checkout" -> <<"checkout">>
      [] route = "contact" -> <<"contact", "checkout">>
      [] OTHER -> <<>>

\* The limiters a request passes after app.use(generalLimiter), by route
RouteLimiters(route) ==
    CASE route = "health" -> <<"general">>
      [] route = "checkout" -> <<"checkout">>
      [] route = "contact" -> <<"contact">>
      [] OTHER -> <<>>

\* mutant: the route's own limiters mounted before the General one
LimitersOf_RouteFirst(route) == RouteLimiters(route) \o <<"general">>

\* app.use(generalLimiter), then the route's own limiters
LimitersOf(route) == <<"general">> \o RouteLimiters(route)

\* The limiter middlewares in order: each increments its count, and the first
\* whose count exceeds its maximum answers the request.
RECURSIVE RunLimiters(_, _, _)
RunLimiters(h, c, ps) ==
    IF ps = <<>> THEN [hits |-> h, limitedBy |-> "none"]
    ELSE LET p == Head(ps)
             h1 == Increment(h, p, c)
         IN IF Exceeded(h1[p][c], Max(p))
            THEN [hits |-> h1, limitedBy |-> p]
            ELSE RunLimiters(h1, c, Tail(ps))

\* mutant: skipFailedRequests set, an answer of 400 or more gives its hit back
Skip_Failed(p, status) == status >= 400

\* skipSuccessfulRequests: false, and skipFailedRequests left at its default:
\* no answer gives the hit it took back
Skip(p, status) == FALSE

\* store.decrement(key)
Decrement(h, p, c) == [h EXCEPT ![p][c] = IF @ > 0 THEN @ - 1 ELSE 0]

\* The limiters a request passed, when its response is finished
RECURSIVE Settle(_, _, _, _)
Settle(h, c, ps, status) ==
    IF ps = <<>> THEN h
    ELSE Settle(IF Skip(Head(ps), status) THEN Decrement(h, Head(ps), c) ELSE h,
                c, Tail(ps), status)

\* The policy a route belongs to in the documentation's table
PolicyOf(route) ==
    CASE route = "contact" -> "contact"
      [] route = "checkout" -> "checkout"
      [] OTHER -> "general"

(***************************************************************************)
(* Requests                                                                *)
(***************************************************************************)
Idle == [stage |-> "idle"]
NoResult == [kind |-> "none"]

\* method and route name the endpoint; origin is the Origin header (""
\* when the request carries none); malformed: the body is not the JSON its
\* Content-Type announces.
BlankInput ==
    [route |-> "other", method |-> "GET", origin |-> "", malformed |-> FALSE,
     id |-> Undefined, sourceId |-> Undefined, amount |-> Undefined,
     name |-> Undefined, email |-> Undefined, message |-> Undefined, token |-> Undefined]

NewRequest(c, in) ==
    [stage |-> "handling", client |-> c, in |-> in, limitedBy |-> "none",
     allowOrigin |-> FALSE, handled |-> FALSE,
     calls |-> <<>>, result |-> NoResult, status |-> 0, error |-> "", message |-> "",
     stack |-> FALSE, count |-> 0, products |-> <<>>, ref |-> 0, logged |-> FALSE]

Respond(status, error) == [kind |-> "respond", status |-> status, error |-> error]

\* The body a catch block sends: a fixed error label, and as message the
\* error's own message in development, a fixed text otherwise
\* (process.env.NODE_ENV === 'development' ? error.message : '...').
Caught(status, error, generic, thrown, e) ==
    [kind |-> "caught", status |-> status, error |-> error,
     message |-> IF e.development THEN thrown.message ELSE generic]

\* err.statusCode || 500
DefaultStatus == 500

\* mutant: the status is the error's own, with no default
ErrorMiddleware_NoDefault(error, e) ==
    [kind |-> "unhandled",
     status |-> error.statusCode,
     error |-> IF error.message # "" THEN error.message ELSE "Internal Server Error",
     stack |-> e.development,
     fields |-> {"error", "timestamp"} \cup (IF e.development THEN {"stack"} ELSE {})]

\* The global error handling middleware: statusCode 0 and message "" stand
\* for an error that has none.  fields are the keys of the JSON body; every
\* Error carries a stack, so the key is there whenever it is spread in.
ErrorMiddleware(error, e) ==
    [kind |-> "unhandled",
     status |-> IF error.statusCode # 0 THEN error.statusCode ELSE DefaultStatus,
     error |-> IF error.message # "" THEN error.message ELSE "Internal Server Error",
     stack |-> e.development,
     fields |-> {"error", "timestamp"} \cup (IF e.development THEN {"stack"} ELSE {})]

\* What express.json() passes to next() for a body that does not parse
ParseError ==
    [kind |-> "error", statusCode |-> 400, message |-> "Unexpected token } in JSON at position 12"]
Await(call) == [kind |-> "await", call |-> call]

\* uuidv4(): a value that is held nowhere, the least of the pool 1..MaxUuid
MaxUuid == 3

RECURSIVE Least(_, _)
Least(S, n) == IF n \in S \/ S = {} THEN n ELSE Least(S, n + 1)

uuidv4(used) == Least((1..MaxUuid) \ used, 1)

KeysOf(r) ==
    IF r = Idle THEN {}
    ELSE {r.ref} \cup {r.calls[k].key : k \in 1..Len(r.calls)}

UsedUuids ==
    {acks[k] : k \in 1..Len(acks)} \cup payments \cup KeysOf(last)
        \cup UNION {KeysOf(slots[i]) : i \in DOMAIN slots}

HasFreeUuid == (1..MaxUuid) \ UsedUuids # {}

(***************************************************************************)
(* The handlers up to their upstream call                                  *)
(***************************************************************************)
MinProductIdLength == 5
MinSourceIdLength == 5
AmountMin == 1
AmountMax == 999999

Call(op, arg, amount, key) == [op |-> op, arg |-> arg, amount |-> amount, key |-> key]

\* app.get('/api/health')
HealthHandler == Respond(200, "")

\* app.get('/api/products') before the await
ProductsBegin(e) ==
    IF ~e.accessToken THEN Respond(500, "Configuration Error")
    ELSE Await(Call("listCatalog", Undefined, Undefined, 0))

\* !productId || productId.length < 5
InvalidProductId(productId) ==
    Falsy(productId) \/ Len(productId.s) < MinProductIdLength

\* mutant: the length check made on the raw parameter
ProductBegin_RawLength(in) ==
    LET productId == sanitizeInput(in.id)
    IN IF InvalidProductId(in.id) THEN Respond(400, "Invalid product ID format")
       ELSE Await(Call("retrieveCatalogObject", productId, Undefined, 0))

\* app.get('/api/products/:id') before the await
ProductBegin(in) ==
    LET productId == sanitizeInput(in.id)
    IN IF InvalidProductId(productId) THEN Respond(400, "Invalid product ID format")
       ELSE Await(Call("retrieveCatalogObject", productId, Undefined, 0))

\* !sourceId || typeof sourceId !== 'string' || sourceId.length < 5
InvalidSourceId(sourceId) ==
    Falsy(sourceId) \/ sourceId.t # "string" \/ Len(sourceId.s) < MinSourceIdLength

\* mutant: the upper limit forgotten
InvalidAmount_NoUpper(amount) ==
    Falsy(amount) \/ amount.t # "number" \/ amount.h < 2 * AmountMin

\* !amount || typeof amount !== 'number' || amount < 1 || amount > 999999
InvalidAmount(amount) ==
    Falsy(amount) \/ amount.t # "number" \/ amount.h < 2 * AmountMin \/ amount.h > 2 * AmountMax

\* Math.floor
Floor(n) == Num(2 * (n.h \div 2))

\* app.post('/api/checkout') before the await
CheckoutBegin(in, e, key) ==
    IF InvalidSourceId(in.sourceId) THEN Respond(400, "Invalid source ID")
    ELSE IF InvalidAmount(in.amount)
    THEN Respond(400, "Invalid amount. Must be between 1 and 999999 cents.")
    ELSE IF ~e.locationId THEN Respond(500, "Configuration Error")
    ELSE Await(Call("createPayment", sanitizeInput(in.sourceId), Floor(in.amount), key))

\* /^[^\s@]+@[^\s@]+\.[^\s@]+$/.test(email)
EmailMatches(s) ==
    \E i \in 2..Len(s) :
        /\ s[i] = "@"
        /\ \A k \in (1..Len(s)) \ {i} : s[k] \notin WhiteSpace \cup {"@"}
        /\ \E j \in (i + 2)..(Len(s) - 1) : s[j] = "."

NameMin == 2
NameMax == 100
EmailMax == 100
MessageMin == 10
MessageMax == 1000

InvalidName(name) ==
    Falsy(name) \/ name.t # "string" \/ Len(name.s) < NameMin \/ Len(name.s) > NameMax

InvalidEmail(email) ==
    Falsy(email) \/ ~EmailMatches(email.s) \/ Len(email.s) > EmailMax

InvalidMessage(message) ==
    \/ Falsy(message)
    \/ message.t # "string"
    \/ Len(message.s) < MessageMin
    \/ Len(message.s) > MessageMax

\* mutant: the email rule checked before the name rule
ContactBegin_EmailFirst(in) ==
    IF Falsy(in.token) THEN Respond(400, "reCAPTCHA verification required")
    ELSE IF InvalidEmail(in.email) THEN Respond(400, "Invalid email address")
    ELSE IF InvalidName(in.name)
    THEN Respond(400, "Invalid name. Must be between 2 and 100 characters.")
    ELSE IF InvalidMessage(in.message)
    THEN Respond(400, "Invalid message. Must be between 10 and 1000 characters.")
    ELSE Await(Call("siteverify", in.token, Undefined, 0))

\* app.post('/api/contact') before the await
ContactBegin(in) ==
    IF Falsy(in.token) THEN Respond(400, "reCAPTCHA verification required")
    ELSE IF InvalidName(in.name)
    THEN Respond(400, "Invalid name. Must be between 2 and 100 characters.")
    ELSE IF InvalidEmail(in.email) THEN Respond(400, "Invalid email address")
    ELSE IF InvalidMessage(in.message)
    THEN Respond(400, "Invalid message. Must be between 10 and 1000 characters.")
    ELSE Await(Call("siteverify", in.token, Undefined, 0))

\* the 404 handler
NotFoundHandler == Respond(404, "Not Found")

\* corsOptions.origin: process.env.ALLOWED_ORIGINS?.split(',') || [...]
AllowedOrigins == {"http://localhost:3000", "http://localhost:5000"}

\* cors(corsOptions) on a request that is not a preflight: the response gets
\* Access-Control-Allow-Origin when the Origin is in the list, and the request
\* goes on to the next middleware in both cases.
CorsAllowOrigin(origin) == origin \in AllowedOrigins

\* cors(corsOptions) on an OPTIONS request: it ends the response itself
Preflight == [kind |-> "preflight", status |-> 204]

\* The limiters a request passes: app.use(generalLimiter) comes before cors and
\* the body parsers, the route's own limiters after them.
PassedLimiters(in) ==
    IF in.method = "OPTIONS" \/ in.malformed THEN <<"general">> ELSE LimitersOf(in.route)

\* The route's handler, run until it responds or awaits its upstream call
Begin(in, e, key) ==
    CASE in.route = "health" -> HealthHandler
      [] in.route = "products" -> ProductsBegin(e)
      [] in.route = "product" -> ProductBegin(in)
      [] in.route = "checkout" -> CheckoutBegin(in, e, key)
      [] in.route = "contact" -> ContactBegin(in)
      [] OTHER -> NotFoundHandler

\* What follows app.use(generalLimiter): cors, express.json(), then the route
Dispatch(in, e, key) ==
    IF in.method = "OPTIONS" THEN Preflight
    ELSE IF in.malformed THEN ErrorMiddleware(ParseError, e)
    ELSE Begin(in, e, key)

(***************************************************************************)
(* The upstream providers: what a call can resolve with                    *)
(***************************************************************************)
Failed == [kind |-> "error", statusCode |-> 0, message |-> "connect ECONNREFUSED 10.0.0.7:443"]

\* A catalog object: its type, its id, and its itemData (Undefined when it has
\* none, else an object whose name may be Undefined)
ItemData(name) == [t |-> "object", name |-> name]
CatalogObject(type, id, itemData) == [type |-> type, id |-> id, itemData |-> itemData]
Array(a) == [t |-> "array", a |-> a]

\* The kinds of object a listing holds, and the id of the object at position k
\* (the first one with a space in front)
ObjectKinds ==
    {[type |-> "ITEM", itemData |-> ItemData(Str(<<"S", "o", "a", "p">>))],
     [type |-> "ITEM", itemData |-> ItemData(Undefined)],
     [type |-> "ITEM", itemData |-> Undefined],
     [type |-> "CATEGORY", itemData |-> Undefined]}

Digits == <<"0", "1", "2", "3", "4", "5", "6", "7", "8", "9">>

IdAt(k) ==
    Str((IF k = 1 THEN <<" ">> ELSE <<>>)
        \o <<Digits[((k \div 100) % 10) + 1], Digits[((k \div 10) % 10) + 1],
              Digits[(k % 10) + 1]>>)

ObjectsOf(kinds) ==
    [k \in 1..Len(kinds) |-> CatalogObject(kinds[k].type, IdAt(k), kinds[k].itemData)]

\* .slice(0, 100)
ProductsLimit == 100

\* The listings: every sequence of at most MaxListLen objects, and a category
\* and an item without itemData followed by a run of items that reaches the
\* limit
MaxListLen == 2
MaxOverList == 1

ShortKinds == UNION {[1..n -> ObjectKinds] : n \in 0..MaxListLen}

Listed(objects) == [kind |-> "ok", objects |-> objects]

ShortListings == {Listed(Array(ObjectsOf(kinds))) : kinds \in ShortKinds}

NamedItem == [type |-> "ITEM", itemData |-> ItemData(Str(<<"S", "o", "a", "p">>))]

NotListed ==
    <<[type |-> "CATEGORY", itemData |-> Undefined], [type |-> "ITEM", itemData |-> Undefined]>>

LongListings ==
    {Listed(Array(ObjectsOf(NotListed \o [i \in 1..n |-> NamedItem]))) :
        n \in (ProductsLimit - 1)..(ProductsLimit + MaxOverList)}

\* catalogApi.listCatalog(): response.result.objects absent or an array
ListResults == {Failed, Listed(Undefined)} \cup ShortListings \cup LongListings

\* catalogApi.retrieveCatalogObject(id): response.result.object absent, or its type
RetrieveResults == {Failed} \cup {[kind |-> "ok", type |-> t] : t \in {"none", "ITEM", "CATEGORY"}}

\* paymentsApi.createPayment(...): response.result.payment present or absent
PaymentResults == {Failed} \cup {[kind |-> "ok", payment |-> b] : b \in BOOLEAN}

\* siteverify: data.success and data.score, the score in tenths
Scores == {4, 5, 6}
VerifyResults ==
    {Failed} \cup {[kind |-> "ok", success |-> b, score |-> sc] : b \in BOOLEAN, sc \in Scores}

ResultsFor(op) ==
    CASE op = "listCatalog" -> ListResults
      [] op = "retrieveCatalogObject" -> RetrieveResults
      [] op = "createPayment" -> PaymentResults
      [] op = "siteverify" -> VerifyResults

(***************************************************************************)
(* The handlers after their upstream call resolved                         *)
(***************************************************************************)
NoResponse == [kind |-> "none"]
Acknowledge(ref) == [kind |-> "ack", status |-> 200, ref |-> ref]

\* res.json({ success: true, count, products })
Listing(products) ==
    [kind |-> "list", status |-> 200, count |-> Len(products), products |-> products]

\* item.itemData?.name || 'Unnamed Product'
NameOf(item) ==
    IF item.itemData = Undefined \/ Falsy(item.itemData.name)
    THEN Str(<<"U", "n", "n", "a", "m", "e", "d", " ", "P", "r", "o", "d", "u", "c", "t">>)
    ELSE item.itemData.name

\* the object made of an item
Product(item) == [id |-> sanitizeInput(item.id), name |-> sanitizeInput(NameOf(item))]

\* .map(item => ({...}))
MapProduct(list) == [k \in 1..Len(list) |-> Product(list[k])]

\* mutant: a failed listing is tried again
ProductsResume_TryAgain(result, e) ==
    IF result.kind = "error" THEN Await(Call("listCatalog", Undefined, Undefined, 0))
    ELSE IF result.objects = Undefined THEN Listing(<<>>)
    ELSE Listing(Slice(MapProduct(SelectSeq(result.objects.a,
                           LAMBDA item : item.type = "ITEM" /\ item.itemData # Undefined)),
                       ProductsLimit))

\* mutant: the objects are not filtered
ProductsResume_NoTypeFilter(result, e) ==
    IF result.kind = "error"
    THEN Caught(500, "Failed to fetch products", "Internal server error", result, e)
    ELSE IF result.objects = Undefined THEN Listing(<<>>)
    ELSE Listing(Slice(MapProduct(result.objects.a), ProductsLimit))

\* app.get('/api/products') after the await
ProductsResume(result, e) ==
    IF result.kind = "error"
    THEN Caught(500, "Failed to fetch products", "Internal server error", result, e)
    ELSE IF result.objects = Undefined THEN Listing(<<>>)
    ELSE Listing(Slice(MapProduct(SelectSeq(result.objects.a,
                           LAMBDA item : item.type = "ITEM" /\ item.itemData # Undefined)),
                       ProductsLimit))

\* mutant: any object found is returned, whatever its type
ProductResume_AnyObject(result, e) ==
    IF result.kind = "error"
    THEN Caught(500, "Failed to fetch product", "Internal server error", result, e)
    ELSE IF result.type = "none" THEN Respond(404, "Product not found")
    ELSE Respond(200, "")

\* app.get('/api/products/:id') after the await
ProductResume(result, e) ==
    IF result.kind = "error"
    THEN Caught(500, "Failed to fetch product", "Internal server error", result, e)
    ELSE IF result.type = "none" \/ result.type # "ITEM" THEN Respond(404, "Product not found")
    ELSE Respond(200, "")

\* app.post('/api/checkout') after the await
CheckoutResume(result, e) ==
    IF result.kind = "error"
    THEN Caught(400, "Payment processing failed", "Unable to process payment", result, e)
    ELSE IF result.payment THEN Respond(200, "")
    ELSE NoResponse

\* score threshold 0.5, in tenths
ScoreThreshold == 5

\* !recaptchaResponse.data.success || recaptchaResponse.data.score < 0.5
VerificationFails(data) == ~data.success \/ data.score < ScoreThreshold

\* mutant: one reference generated once and reused
ContactResume_FixedRef(result, ref, e) ==
    IF result.kind = "error"
    THEN Caught(500, "Failed to process contact form", "Internal server error", result, e)
    ELSE IF VerificationFails(result)
    THEN Respond(400, "reCAPTCHA verification failed. Please try again.")
    ELSE Acknowledge(1)

\* app.post('/api/contact') after the await
ContactResume(result, ref, e) ==
    IF result.kind = "error"
    THEN Caught(500, "Failed to process contact form", "Internal server error", result, e)
    ELSE IF VerificationFails(result)
    THEN Respond(400, "reCAPTCHA verification failed. Please try again.")
    ELSE Acknowledge(ref)

Resume(in, result, ref, e) ==
    CASE in.route = "products" -> ProductsResume(result, e)
      [] in.route = "product" -> ProductResume(result, e)
      [] in.route = "checkout" -> CheckoutResume(result, e)
      [] in.route = "contact" -> ContactResume(result, ref, e)

\* The request as its handler leaves it
Finish(r, step) ==
    CASE step.kind = "respond" ->
            [r EXCEPT !.stage = "done", !.status = step.status, !.error = step.error]
      [] step.kind = "caught" ->
            [r EXCEPT !.stage = "done", !.status = step.status, !.error = step.error,
                      !.message = step.message]
      [] step.kind = "unhandled" ->
            [r EXCEPT !.stage = "done", !.status = step.status, !.error = step.error,
                      !.stack = step.stack]
      [] step.kind = "ack" ->
            [r EXCEPT !.stage = "done", !.status = step.status, !.ref = step.ref,
                      !.logged = TRUE]
      [] step.kind = "list" ->
            [r EXCEPT !.stage = "done", !.status = step.status, !.count = step.count,
                      !.products = step.products]
      [] step.kind = "preflight" -> [r EXCEPT !.stage = "done", !.status = step.status]
      [] step.kind = "none" -> [r EXCEPT !.stage = "done"]

\* The limiter's answer
TooMany(r, p) ==
    [r EXCEPT !.stage = "done", !.limitedBy = p, !.status = 429,
              !.error = "Too many requests"]

(***************************************************************************)
(* The server's steps                                                      *)
(***************************************************************************)
MaxInFlight == 1

\* mutant: a handler waiting on its upstream call holds the server
FreeSlots_OneAtATime ==
    IF \E i \in DOMAIN slots : slots[i] # Idle THEN {} ELSE DOMAIN slots

\* Where a handler that awaits can be suspended: asyncHandler returns as soon
\* as fn does, so any free place will do
FreeSlots == {i \in DOMAIN slots : slots[i] = Idle}

UnderCap(c, route, cap) ==
    /\ hits["general"][c] < cap
    /\ \A k \in 1..Len(RouteLimiters(route)) :
            hits[RouteLimiters(route)[k]][c] < Max(RouteLimiters(route)[k]) + MaxOver
    /\ sent[PolicyOf(route)][c] < Max(PolicyOf(route)) + MaxOver

\* A request of client c arrives: the limiters, then the route's handler up to
\* its response or its upstream call.
Arrive(c, in, cap) ==
    /\ UnderCap(c, in.route, cap)
    /\ LET lim == RunLimiters(hits, c, PassedLimiters(in))
           step == Dispatch(in, env, uuidv4(UsedUuids))
           refused == NewRequest(c, in)
           passed == [refused EXCEPT !.allowOrigin = CorsAllowOrigin(in.origin)]
           r == [passed EXCEPT !.handled = in.method # "OPTIONS" /\ ~in.malformed]
       IN /\ hits' = IF lim.limitedBy = "none" /\ step.kind # "await"
                     THEN Settle(lim.hits, c, PassedLimiters(in), Finish(r, step).status)
                     ELSE lim.hits
          /\ sent' = [sent EXCEPT ![PolicyOf(in.route)][c] = @ + 1]
          /\ IF lim.limitedBy # "none"
             THEN /\ last' = TooMany(IF Exceeded(hits["general"][c] + 1, GeneralMax)
                                     THEN refused ELSE passed, lim.limitedBy)
                  /\ UNCHANGED slots
             ELSE IF step.kind = "await"
             THEN /\ FreeSlots # {}
                  /\ step.call.op = "createPayment" => HasFreeUuid
                  /\ slots' = [slots EXCEPT ![Least(FreeSlots, 1)] =
                                  [r EXCEPT !.stage = "awaiting", !.calls = <<step.call>>]]
                  /\ UNCHANGED last
             ELSE /\ last' = Finish(r, step)
                  /\ UNCHANGED slots
    /\ UNCHANGED <<acks, payments, env, unitVars>>

\* The upstream call of the request in slot i resolves with result, and the
\* handler runs on, to its end or to its next upstream call.
Resolve(i, result) ==
    /\ slots[i] # Idle
    /\ LET r == slots[i]
           call == r.calls[Len(r.calls)]
           step == Resume(r.in, result, uuidv4(UsedUuids), env)
       IN /\ result \in ResultsFor(call.op)
          /\ step.kind = "ack" => HasFreeUuid
          /\ IF step.kind = "await"
             THEN /\ slots' = [slots EXCEPT ![i] = [r EXCEPT !.result = result,
                                                              !.calls = Append(@, step.call)]]
                  /\ UNCHANGED last
             ELSE /\ last' = Finish([r EXCEPT !.result = result], step)
                  /\ slots' = [slots EXCEPT ![i] = Idle]
          /\ acks' = IF step.kind = "ack" THEN Append(acks, step.ref) ELSE acks
          /\ payments' = IF call.op = "createPayment" /\ result.kind = "ok" /\ result.payment
                         THEN payments \cup {call.key} ELSE payments
          /\ hits' = IF step.kind = "await" THEN hits
                     ELSE Settle(hits, r.client, PassedLimiters(r.in),
                                 Finish([r EXCEPT !.result = result], step).status)
    /\ UNCHANGED <<sent, env, unitVars>>

\* The interval timer of limiter p fires: MemoryStore.resetAll()
TimerFires(p) ==
    /\ hits' = [hits EXCEPT ![p] = [c \in Clients |-> 0]]
    /\ sent' = [sent EXCEPT ![p] = [c \in Clients |-> 0]]
    /\ UNCHANGED <<slots, last, acks, payments, env, unitVars, clientVars>>

Configured == [accessToken |-> TRUE, locationId |-> TRUE, development |-> FALSE]

\* NODE_ENV=development
Development == [Configured EXCEPT !.development = TRUE]

\* The server as app.listen leaves it, started with environment e, with room
\* for n requests suspended at a time
Listening(e, n) ==
    /\ hits = [p \in Policies |-> [c \in Clients |-> 0]]
    /\ sent = [p \in Policies |-> [c \in Clients |-> 0]]
    /\ slots = [i \in 1..n |-> Idle]
    /\ last = Idle
    /\ acks = <<>>
    /\ payments = {}
    /\ env = e

Started(e) == Listening(e, MaxInFlight)

InitServer == Started(Configured)

(***************************************************************************)
(* The requests the clients send                                           *)
(***************************************************************************)
HealthReq == [BlankInput EXCEPT !.route = "health"]
ProductsReq == [BlankInput EXCEPT !.route = "products"]
OtherReq == BlankInput
ProductReq(id) == [BlankInput EXCEPT !.route = "product", !.id = id]
CheckoutReq(sourceId, amount) ==
    [BlankInput EXCEPT !.route = "checkout", !.method = "POST", !.sourceId = sourceId,
                       !.amount = amount]
ContactReq(token, name, email, message) ==
    [BlankInput EXCEPT !.route = "contact", !.method = "POST", !.token = token, !.name = name,
                       !.email = email, !.message = message]

ProductIds ==
    {Str(<<"a", "b", "c", "d", "e">>), Str(<<"a", "b", "c", "d">>),
     Str(<<"<", "a", "b", "c", "d">>), Str(<<" ", "a", "b", "c", "d", "e">>)}

SourceIds ==
    {Str(<<"c", "n", "o", "n", "1">>), Str(<<"c", "n", "o", "n">>),
     Str(<<"<", "c", "n", "o", "n">>), Undefined}

Amounts ==
    {Num(0), Num(2), Num(3), Num(2 * AmountMax), Num(2 * AmountMax + 1),
     Num(2 * AmountMax + 2), Num(-2), Str(<<"5">>), Undefined}

GoodToken == Str(<<"t", "o", "k">>)
GoodName == Str(<<"J", "o">>)
GoodEmail == Str(<<"j", "@", "x", ".", "y">>)
GoodMessage == Str(Rep("m", MessageMin))

ContactTokens == {GoodToken, Undefined}
ContactNames == {GoodName, Str(<<"J">>), Str(Rep("n", NameMax)), Str(Rep("n", NameMax + 1))}
ContactEmails ==
    {GoodEmail, Str(<<"j", "@", "x", "y">>),
     Str(<<"j", "@", "x", ".">> \o Rep("y", EmailMax - 3))}
ContactMessages ==
    {GoodMessage, Str(Rep("m", MessageMin - 1)), Str(Rep("m", MessageMax + 1))}

\* every combination of the field values above
ContactInputs ==
    {ContactReq(t, n, e, m) :
        t \in ContactTokens, n \in ContactNames, e \in ContactEmails, m \in ContactMessages}

CheckoutInputs == {CheckoutReq(sid, a) : sid \in SourceIds, a \in Amounts}

CatalogInputs == {HealthReq, ProductsReq, OtherReq} \cup {ProductReq(id) : id \in ProductIds}

\* one well-formed request to every route, sent without an Origin, from a
\* listed origin and from another one; the preflights of the two POST routes;
\* the two POST requests with a body that does not parse
WellFormed ==
    {HealthReq, ProductsReq, OtherReq, ProductReq(Str(<<"a", "b", "c", "d", "e">>)),
     CheckoutReq(Str(<<"c", "n", "o", "n", "1">>), Num(2)),
     ContactReq(GoodToken, GoodName, GoodEmail, GoodMessage)}

Origins == {"", "http://localhost:3000", "https://elsewhere.example"}

PipelineInputs ==
    {[in EXCEPT !.origin = o] : in \in WellFormed, o \in Origins}
        \cup {[in EXCEPT !.origin = o, !.method = "OPTIONS"] :
                in \in {r \in WellFormed : r.method = "POST"}, o \in Origins}
        \cup {[in EXCEPT !.malformed = TRUE] : in \in {r \in WellFormed : r.method = "POST"}}

(***************************************************************************)
(* The front-end client (src/assets/js/square-integration.js): one call of *)
(* processPayment, its fetchWithRetry, and the HTTP exchange of the        *)
(* current fetch.  A fetch resolves with the server's response or rejects: *)
(* the request was lost before the server, or the response after it.       *)
(***************************************************************************)
maxRetries == 3
retryDelay == 1000
SubstringLimit == 100

NoExchange == [stage |-> "none"]
\* outcome: what fetchWithRetry ended with, a response it returned (with its
\* status) or an error it threw
ClientIdle ==
    [pc |-> "idle", retries |-> 0, delay |-> 0, fetches |-> 0, body |-> BlankInput,
     outcome |-> "none", status |-> 0]

InitClient ==
    /\ cli = ClientIdle
    /\ net = NoExchange

\* what processPayment is called with
PurchaseSourceIds == {Str(<<"c", "n", "o", "n", "1">>), Undefined}
PurchaseAmounts == {Num(2 * 1299), Num(3), Num(0)}

\* response.ok
Ok(status) == status \in 200..299

\* fetch(url, options): the request leaves the browser
Fetch(c, retries) ==
    /\ cli' = [c EXCEPT !.pc = "fetching", !.retries = retries, !.delay = 0,
                        !.fetches = @ + 1]
    /\ net' = [stage |-> "request"]

\* processPayment(sourceId, amount) up to its first fetch
ProcessPayment(sourceId, amount) ==
    /\ cli.pc = "idle"
    /\ IF Falsy(sourceId) \/ sourceId.t # "string"
       THEN cli' = [cli EXCEPT !.pc = "failed"] /\ UNCHANGED net
       ELSE IF Falsy(amount) \/ amount.t # "number" \/ amount.h < 2
       THEN cli' = [cli EXCEPT !.pc = "failed"] /\ UNCHANGED net
       ELSE Fetch([cli EXCEPT !.body =
                        CheckoutReq(Str(Slice(sourceId.s, SubstringLimit)), Floor(amount))], 0)
    /\ UNCHANGED <<serverVars, unitVars>>

\* fetchWithRetry after its fetch resolved with a response of this status
AfterResponse(status) ==
    IF ~Ok(status) /\ cli.retries < maxRetries
    THEN cli' = [cli EXCEPT !.pc = "backoff", !.delay = retryDelay * (cli.retries + 1)]
    ELSE cli' = [cli EXCEPT !.pc = IF Ok(status) THEN "done" ELSE "failed",
                            !.outcome = "response", !.status = status]

\* mutant: the same delay before every retry
AfterError_FixedDelay ==
    IF cli.retries < maxRetries
    THEN cli' = [cli EXCEPT !.pc = "backoff", !.delay = retryDelay]
    ELSE cli' = [cli EXCEPT !.pc = "failed", !.outcome = "error"]

\* fetchWithRetry after its fetch rejected
AfterError ==
    IF cli.retries < maxRetries
    THEN cli' = [cli EXCEPT !.pc = "backoff", !.delay = retryDelay * (cli.retries + 1)]
    ELSE cli' = [cli EXCEPT !.pc = "failed", !.outcome = "error"]

\* the request is lost before it reaches the server: the fetch rejects
RequestLost ==
    /\ net.stage = "request"
    /\ AfterError
    /\ net' = NoExchange
    /\ UNCHANGED <<serverVars, unitVars>>

\* the request reaches the server
RequestDelivered(c, cap) ==
    /\ net.stage = "request"
    /\ Arrive(c, cli.body, cap)
    /\ net' = IF slots' = slots THEN [stage |-> "response", status |-> last'.status]
              ELSE [stage |-> "server"]
    /\ UNCHANGED cli

\* the upstream call of the client's request resolves
UpstreamResolves(i, result) ==
    /\ net.stage = "server"
    /\ Resolve(i, result)
    /\ net' = IF last'.status = 0 THEN net
              ELSE [stage |-> "response", status |-> last'.status]
    /\ UNCHANGED cli

\* the response is lost on its way back: the fetch rejects
ResponseLost ==
    /\ net.stage = "response"
    /\ AfterError
    /\ net' = NoExchange
    /\ UNCHANGED <<serverVars, unitVars>>

\* the response reaches the client: the fetch resolves
ResponseDelivered ==
    /\ net.stage = "response"
    /\ AfterResponse(net.status)
    /\ net' = NoExchange
    /\ UNCHANGED <<serverVars, unitVars>>

\* the backoff timer fires: fetchWithRetry(url, options, retries + 1)
Retry ==
    /\ cli.pc = "backoff"
    /\ Fetch(cli, cli.retries + 1)
    /\ UNCHANGED <<serverVars, unitVars>>

(***************************************************************************)
(* CustomCarousel (src/assets/js/custom-carousel.js:6-84).  items is       *)
(* items.length, active the set of indices of the items that carry the     *)
(* 'active' class, trail the last MaxTrail operations with the index each  *)
(* was called with and the slide it started from.  A carousel without      *)
(* items gets no listeners (init returns early), so nothing acts on it.    *)
(***************************************************************************)
MaxItems == 4
MaxBeyond == 2
MaxTrail == 2

\* mutant: a negative index is taken as it is
Validate_NoLower(index) ==
    IF index >= items THEN 0 ELSE index

\* mutant: an index out of range goes to the nearest slide
Validate_Clamp(index) ==
    IF index < 0 THEN 0
    ELSE IF index >= items THEN items - 1
    ELSE index

\* showSlide: "Validate index"
Validate(index) ==
    IF index < 0 THEN items - 1
    ELSE IF index >= items THEN 0
    ELSE index

Latest(t) == IF Len(t) > MaxTrail THEN Tail(t) ELSE t

showSlide(op, index) ==
    /\ currentIndex' = Validate(index)
    /\ active' = (active \ (0..(items - 1))) \cup {currentIndex'}
    /\ trail' = Latest(Append(trail, [op |-> op, index |-> index, from |-> currentIndex]))
    /\ UNCHANGED <<items, serverVars, clientVars, sanVars, errVars>>

next ==
    /\ items > 0
    /\ showSlide("next", currentIndex + 1)

prev ==
    /\ items > 0
    /\ showSlide("prev", currentIndex - 1)

goToSlide ==
    /\ items > 0
    /\ \E index \in (0 - MaxBeyond)..(items - 1 + MaxBeyond) : showSlide("goToSlide", index)

\* new CustomCarousel(id) on a page with n items: init shows slide 0
Constructed(n) ==
    /\ items = n
    /\ currentIndex = 0
    /\ active = IF n = 0 THEN {} ELSE {0}
    /\ trail = <<>>

(***************************************************************************)
(* The error middleware on its own: it is given every error next(err) can  *)
(* pass it, an AppError with a status code or an Error without one         *)
(* (statusCode 0), with a message or without (message "").                 *)
(***************************************************************************)
\* new AppError(message, statusCode)
AppError(message, statusCode) ==
    [kind |-> "error", statusCode |-> statusCode, message |-> message]

StatusCodes == {0, 400, 401, 403, 404, 408, 413, 415, 422, 500, 502, 503}
Messages == {"", "request entity too large", "Cannot read properties of undefined"}
Errors == {AppError(m, code) : m \in Messages, code \in StatusCodes} \cup {ParseError, Failed}

NoError == [kind |-> "none"]
NotSent == [kind |-> "none"]

InitErr ==
    /\ err = NoError
    /\ res = NotSent

ErrStart ==
    /\ err \in Errors
    /\ res = NotSent

\* next(err) reaches the global error handling middleware
HandleError ==
    /\ err # NoError
    /\ res = NotSent
    /\ res' = ErrorMiddleware(err, env)
    /\ UNCHANGED <<err, serverVars, clientVars, sanVars, carouselVars>>

(***************************************************************************)
(* Specifications: the server under one kind of traffic each.  A burst is  *)
(* the most requests a client sends in one General window.  Spec and       *)
(* SpecGeneral follow the limiters across windows; the others follow the   *)
(* handlers on the requests of one burst, within one window.               *)
(***************************************************************************)
AnyResult ==
    UNION {ResultsFor(op) :
        op \in {"listCatalog", "retrieveCatalogObject", "createPayment", "siteverify"}}

NoCarousel == Constructed(0)

Init == InitServer /\ InitClient /\ InitSan /\ InitErr /\ NoCarousel

Requested(Inputs, cap) ==
    /\ \E c \in Clients, in \in Inputs : Arrive(c, in, cap)
    /\ UNCHANGED clientVars

Resolved(Results) ==
    /\ \E i \in DOMAIN slots, result \in Results : Resolve(i, result)
    /\ UNCHANGED clientVars

Timers == \E p \in Policies : TimerFires(p)

\* every route, one request of each kind, the providers failing
LimiterBurst == 7
LimiterInputs ==
    {HealthReq, ProductsReq,
     CheckoutReq(Str(<<"c", "n", "o", "n", "1">>), Num(2)),
     ContactReq(GoodToken, GoodName, GoodEmail, GoodMessage),
     ContactReq(Undefined, GoodName, GoodEmail, GoodMessage)}

NextLimiter ==
    \/ Requested(LimiterInputs, LimiterBurst)
    \/ Resolved({Failed})
    \/ Timers

Spec == Init /\ [][NextLimiter]_vars

\* the General policy driven to its maximum by health checks and catalog reads
NextGeneral ==
    \/ Requested({HealthReq, ProductsReq}, GeneralMax + MaxOver)
    \/ Resolved({Failed})
    \/ TimerFires("general")

SpecGeneral == Init /\ [][NextGeneral]_vars

\* the General policy driven to its maximum while contact submissions and
\* payments come in
OrderInputs ==
    {OtherReq,
     CheckoutReq(Str(<<"c", "n", "o", "n", "1">>), Num(2)),
     ContactReq(GoodToken, GoodName, GoodEmail, GoodMessage)}

NextOrder ==
    \/ Requested(OrderInputs, GeneralMax + MaxOver)
    \/ Resolved({Failed})

SpecOrder == Init /\ [][NextOrder]_vars

\* the handlers on every input of their route
MaxBurst == 3

NextCheckout ==
    \/ Requested(CheckoutInputs, MaxBurst)
    \/ Resolved(AnyResult)

SpecCheckout == Init /\ [][NextCheckout]_vars

NextContact ==
    \/ Requested(ContactInputs, MaxBurst)
    \/ Resolved(AnyResult)

SpecContact == Init /\ [][NextContact]_vars

NextCatalog ==
    \/ Requested(CatalogInputs, MaxBurst)
    \/ Resolved(AnyResult)

SpecCatalog == Init /\ [][NextCatalog]_vars

\* the whole middleware stack on one request of every kind, in production
\* and in development
\* every result but the listings of more than one object
PipelineResults ==
    AnyResult \ {l \in ShortListings \cup LongListings : Len(l.objects.a) > 1}

NextPipeline ==
    \/ Requested(PipelineInputs, MaxBurst)
    \/ Resolved(PipelineResults)

InitPipeline ==
    /\ \E e \in {Configured, Development} : Started(e)
    /\ InitClient
    /\ InitSan
    /\ InitErr
    /\ NoCarousel

SpecPipeline == InitPipeline /\ [][NextPipeline]_vars

\* several requests suspended at a time while others arrive: contact
\* submissions and catalog reads, across Contact windows
MaxConcurrent == 2

ConcurrentInputs ==
    {ProductsReq, HealthReq,
     ContactReq(GoodToken, GoodName, GoodEmail, GoodMessage),
     ContactReq(Undefined, GoodName, GoodEmail, GoodMessage)}

ConcurrentResults ==
    {Failed, Listed(Undefined), [kind |-> "ok", success |-> TRUE, score |-> 6]}

NextConcurrent ==
    \/ Requested(ConcurrentInputs, LimiterBurst)
    \/ Resolved(ConcurrentResults)
    \/ TimerFires("contact")

InitConcurrent ==
    /\ Listening(Configured, MaxConcurrent)
    /\ InitClient
    /\ InitSan
    /\ InitErr
    /\ NoCarousel

SpecConcurrent == InitConcurrent /\ [][NextConcurrent]_vars

\* one purchase made through the front-end client
NextClient ==
    \/ \E sourceId \in PurchaseSourceIds, amount \in PurchaseAmounts :
            ProcessPayment(sourceId, amount)
    \/ RequestLost
    \/ \E c \in Clients : RequestDelivered(c, GeneralMax)
    \/ \E i \in 1..MaxInFlight, result \in AnyResult : UpstreamResolves(i, result)
    \/ ResponseLost
    \/ ResponseDelivered
    \/ Retry

SpecClient == Init /\ [][NextClient]_vars

\* sanitizeInput applied once and twice to every input
NextSan == SanitizeOnce \/ SanitizeTwice

InitSanitize == InitServer /\ InitClient /\ SanStart /\ InitErr /\ NoCarousel

\* the error middleware on every error, in production and in development
NextErrors == HandleError

InitErrors ==
    /\ \E e \in {Configured, Development} : Started(e)
    /\ InitClient
    /\ InitSan
    /\ ErrStart
    /\ NoCarousel

SpecErrors == InitErrors /\ [][NextErrors]_vars

\* a carousel of up to MaxItems items under any clicks
NextCarousel == next \/ prev \/ goToSlide

InitCarouselPage ==
    /\ InitServer
    /\ InitClient
    /\ InitSan
    /\ InitErr
    /\ \E n \in 0..MaxItems : Constructed(n)

SpecCarousel == InitCarouselPage /\ [][NextCarousel]_vars

SpecSan == InitSanitize /\ [][NextSan]_vars

(***************************************************************************)
(* Properties                                                              *)
(***************************************************************************)
\* every request the server holds: suspended ones and the last one finished
Requests == ({last} \cup {slots[i] : i \in DOMAIN slots}) \ {Idle}

\* a request of client c to a route of policy p arrives in this step
Arrives(p, c) == sent'[p][c] = sent[p][c] + 1

\* the request arriving in this step is answered by a limiter
RefusedNow == slots' = slots /\ last'.limitedBy # "none"

OutOfRange(amount) ==
    amount.t = "number" /\ (amount.h < 2 * AmountMin \/ amount.h > 2 * AmountMax)

\* C1: a checkout request whose amount is a number outside [1, 999999] never
\* reaches createPayment (no upstream call is made for it, it is never left
\* waiting), and the handler answers it 400; only a rate limiter answering
\* first gives another status, 429.
C1_AmountOutOfRangeRejected ==
    \A r \in Requests :
        r.in.route = "checkout" /\ OutOfRange(r.in.amount) =>
            /\ r.stage = "done"
            /\ r.calls = <<>>
            /\ r.limitedBy = "none" => r.status = 400
            /\ r.limitedBy # "none" => r.status = 429

C1_Witness ==
    /\ last # Idle
    /\ last.in = CheckoutReq(Str(<<"c", "n", "o", "n", "1">>), Num(2 * AmountMax + 2))
    /\ last.status = 400
    /\ last.limitedBy = "none"

\* C2: one purchase made through processPayment, whatever fetchWithRetry
\* retries and whatever is lost on the way, creates at most one payment.
C2_AtMostOnePayment == Cardinality(payments) <= 1

\* C3: a contact submission with valid fields whose verification resolved with
\* success false or with a score of at most 0.5 is answered 400, never 200.
C3_LowScoreRejected ==
    \A r \in Requests :
        (/\ r.in.route = "contact"
         /\ r.stage = "done"
         /\ r.result.kind = "ok"
         /\ ~r.result.success \/ r.result.score <= ScoreThreshold)
            => r.status = 400

ValidContact(in) ==
    /\ in.token.t = "string" /\ in.token.s # <<>>
    /\ in.name.t = "string" /\ Len(in.name.s) \in NameMin..NameMax
    /\ in.email.t = "string" /\ EmailMatches(in.email.s) /\ Len(in.email.s) <= EmailMax
    /\ in.message.t = "string" /\ Len(in.message.s) \in MessageMin..MessageMax

\* C4: a contact submission that no limiter refused, with valid fields, whose
\* verification resolved with success and a score above 0.5, is answered 200
\* with a reference, and no two acknowledgments sent carry the same reference.
C4_FreshReference ==
    /\ \A r \in Requests :
        (/\ r.in.route = "contact"
         /\ r.stage = "done"
         /\ r.limitedBy = "none"
         /\ ValidContact(r.in)
         /\ r.result.kind = "ok"
         /\ r.result.success
         /\ r.result.score > ScoreThreshold)
            => /\ r.status = 200
               /\ r.ref # 0
               /\ acks # <<>>
               /\ r.ref = acks[Len(acks)]
    /\ \A i, j \in 1..Len(acks) : i # j => acks[i] # acks[j]

C4_Witness ==
    /\ Len(acks) >= 2
    /\ last # Idle
    /\ last.status = 200
    /\ last.ref = acks[Len(acks)]

\* C5: sanitizeInput applied twice gives what it gives applied once.
C5_Idempotent == sanPc = "twice" => sanOut2 = sanOut

\* C6: of the requests one client sends to the routes of one policy within one
\* window, the first Max(p) are admitted and the next one is refused; the
\* first request after the window elapsed is admitted again.
C6_ExactlyTheNextRefused ==
    [][\A p \in Policies, c \in Clients :
        Arrives(p, c) =>
            /\ sent'[p][c] <= Max(p) => ~RefusedNow
            /\ sent'[p][c] = Max(p) + 1 => RefusedNow]_vars

C8_HealthCountsOnce ==
    [][\A c \in Clients :
        (Arrives("general", c) /\ slots' = slots /\ last'.in.route = "health") =>
            /\ hits'["general"][c] = hits["general"][c] + 1
            /\ sent'["general"][c] <= GeneralMax => last'.limitedBy = "none"]_vars

\* C9: a request that reaches a limiter whose count is already at its maximum
\* is answered 429 without any upstream call (none recorded for it, no request
\* left waiting, no payment created), and a limiter that refuses keeps refusing
\* until its timer clears the counts.
C9_RefusedUntilWindowElapses ==
    [][\A p \in Policies, c \in Clients :
        /\ (hits[p][c] >= Max(p) /\ hits'[p][c] > hits[p][c]) =>
                /\ slots' = slots
                /\ last'.limitedBy = p
                /\ last'.status = 429
                /\ last'.calls = <<>>
                /\ payments' = payments
        /\ (hits[p][c] > Max(p) /\ hits'[p][c] # 0) => hits'[p][c] > Max(p)]_vars

C9_Witness ==
    /\ last # Idle
    /\ last.in = ContactReq(GoodToken, GoodName, GoodEmail, GoodMessage)
    /\ last.limitedBy = "contact"
    /\ last.status = 429
    /\ last.calls = <<>>
    /\ \E c \in Clients : hits["contact"][c] >= ContactMax + 2

\* C10: a product request whose id has fewer than 5 characters after
\* sanitization never reaches retrieveCatalogObject, and the handler answers
\* it 400; only a rate limiter answering first gives another status, 429.
C10_ShortIdRejected ==
    \A r \in Requests :
        (r.in.route = "product" /\ Len(sanitizeInput(r.in.id).s) < MinProductIdLength) =>
            /\ r.stage = "done"
            /\ r.calls = <<>>
            /\ r.limitedBy = "none" => r.status = 400
            /\ r.limitedBy # "none" => r.status = 429

C10_Witness ==
    /\ last # Idle
    /\ last.in = ProductReq(Str(<<"<", "a", "b", "c", "d">>))
    /\ last.status = 400
    /\ last.limitedBy = "none"

\* the rules of the contact form, in the order they are stated
TokenPresent(in) == in.token.t = "string" /\ in.token.s # <<>>
NameInRange(in) == in.name.t = "string" /\ Len(in.name.s) \in NameMin..NameMax
EmailWellFormed(in) ==
    in.email.t = "string" /\ EmailMatches(in.email.s) /\ Len(in.email.s) <= EmailMax
MessageInRange(in) ==
    in.message.t = "string" /\ Len(in.message.s) \in MessageMin..MessageMax

FirstFailingRule(in) ==
    CASE ~TokenPresent(in) -> "reCAPTCHA verification required"
      [] TokenPresent(in) /\ ~NameInRange(in) ->
            "Invalid name. Must be between 2 and 100 characters."
      [] TokenPresent(in) /\ NameInRange(in) /\ ~EmailWellFormed(in) ->
            "Invalid email address"
      [] OTHER -> "Invalid message. Must be between 10 and 1000 characters."

Fractional(amount) == amount.t = "number" /\ amount.h % 2 = 1

\* C12: a checkout request whose amount is not an integer never reaches
\* createPayment, and the handler answers it 400; only a rate limiter
\* answering first gives another status, 429.
C12_FractionalAmountRejected ==
    \A r \in Requests :
        (r.in.route = "checkout" /\ Fractional(r.in.amount)) =>
            /\ r.stage = "done"
            /\ r.calls = <<>>
            /\ r.limitedBy = "none" => r.status = 400
            /\ r.limitedBy # "none" => r.status = 429

\* the messages of the errors the server meets
InternalMessages == {Failed.message, ParseError.message}

\* C13: in production no response carries the message or the stack of the
\* error that caused it, whether a catch block or the terminal error
\* middleware answered.
C13_NoInternalDetail ==
    \A r \in Requests :
        (~env.development /\ r.stage = "done") =>
            /\ r.error \notin InternalMessages
            /\ r.message \notin InternalMessages
            /\ ~r.stack

\* C14: a request that carries an Origin outside the allow-list never reaches
\* a route handler and never causes an upstream call.
C14_UnlistedOriginRejected ==
    \A r \in Requests :
        (r.in.origin # "" /\ r.in.origin \notin AllowedOrigins) =>
            /\ ~r.handled
            /\ r.calls = <<>>

\* C15: one call of fetchWithRetry issues at most 3 fetches, and the delay
\* before a retry is retryDelay times the number of attempts made so far.
C15_AtMostThreeAttempts ==
    /\ cli.fetches <= 3
    /\ cli.pc = "backoff" => cli.delay = retryDelay * cli.fetches

\* C15 as amended: one call of fetchWithRetry issues at most maxRetries + 1
\* fetches, the first and at most maxRetries retries, and the delay before a
\* retry is retryDelay times the number of attempts made so far.
C15_BoundedLinearBackoff ==
    /\ cli.fetches <= maxRetries + 1
    /\ cli.pc = "backoff" =>
            /\ cli.fetches <= maxRetries
            /\ cli.delay = retryDelay * cli.fetches

C15_Witness ==
    /\ cli.pc = "failed"
    /\ cli.fetches = maxRetries + 1
    /\ cli.retries = maxRetries

\* C16: a product request whose retrieval resolved with no object, or with an
\* object whose type is not ITEM, is answered 404 "Product not found"; one
\* whose retrieval resolved with an ITEM is answered 200, and no other product
\* request is.
C16_NotAnItemIsNotFound ==
    \A r \in Requests :
        (r.in.route = "product" /\ r.stage = "done") =>
            /\ (r.result.kind = "ok" /\ r.result.type # "ITEM") =>
                    r.status = 404 /\ r.error = "Product not found"
            /\ r.status = 200 <=> (r.result.kind = "ok" /\ r.result.type = "ITEM")

C16_Witness ==
    /\ last # Idle
    /\ last.in.route = "product"
    /\ last.result.kind = "ok"
    /\ last.result.type = "CATEGORY"
    /\ last.status = 404

\* Every product is made of an object of type ITEM, and the products follow
\* one another as their objects do (the ids of a listing are distinct).
Embeds(products, objects) ==
    LET ids == [j \in 1..Len(objects) |-> sanitizeInput(objects[j].id)]
        At(i) == CHOOSE j \in 1..Len(objects) : ids[j] = products[i].id
    IN /\ \A i \in 1..Len(products) :
            \E j \in 1..Len(objects) : ids[j] = products[i].id /\ objects[j].type = "ITEM"
       /\ \A i \in 1..(Len(products) - 1) : At(i) < At(i + 1)

\* C17: a products request whose listing resolved is answered 200 with count
\* the number of products returned: none when the listing has no object list,
\* else at most 100 products, each made of an object of type ITEM of the
\* listing, in the listing's order.
C17_ItemsOnlyAtMostHundredInOrder ==
    \A r \in Requests :
        (r.in.route = "products" /\ r.stage = "done" /\ r.result.kind = "ok") =>
            /\ r.status = 200
            /\ r.count = Len(r.products)
            /\ r.count <= ProductsLimit
            /\ IF r.result.objects = Undefined THEN r.products = <<>>
               ELSE Embeds(r.products, r.result.objects.a)

C17_Witness ==
    /\ last # Idle
    /\ last.in.route = "products"
    /\ last.result.kind = "ok"
    /\ last.result.objects # Undefined
    /\ Len(last.result.objects.a) > ProductsLimit + 1
    /\ last.result.objects.a[1].type = "CATEGORY"
    /\ last.count = ProductsLimit

\* C18: a checkout request that passed validation and whose createPayment
\* call has resolved has been answered, whatever the call resolved with.
C18_ValidatedCheckoutAnswered ==
    \A r \in Requests :
        (r.in.route = "checkout" /\ r.calls # <<>> /\ r.stage = "done") => r.status # 0

\* C19: the sourceId of every createPayment call is a string of at least 5
\* characters.
C19_ForwardedSourceIdValid ==
    \A r \in Requests :
        \A k \in 1..Len(r.calls) :
            r.calls[k].op = "createPayment" =>
                /\ r.calls[k].arg.t = "string"
                /\ Len(r.calls[k].arg.s) >= MinSourceIdLength

\* C20: the handling of one request makes at most one upstream call, and a
\* request whose call failed has been answered with an error after that one
\* call.
C20_NoServerRetry ==
    \A r \in Requests :
        /\ Len(r.calls) <= 1
        /\ r.result.kind = "error" =>
                /\ r.stage = "done"
                /\ r.status \in {400, 500}
                /\ Len(r.calls) = 1

C20_Witness ==
    /\ last # Idle
    /\ last.in.route = "products"
    /\ last.result = Failed
    /\ last.status = 500
    /\ Len(last.calls) = 1

\* a request arrives in this step, and the request that arrives
Arrival == \E p \in Policies, c \in Clients : sent'[p][c] = sent[p][c] + 1

Newcomer ==
    IF slots' = slots THEN last'
    ELSE slots'[CHOOSE i \in DOMAIN slots : slots'[i] # slots[i]]

\* C21: whatever requests are suspended, a request that arrives adds one to
\* the count of every limiter it reaches (at least one to the General count;
\* exactly one to the count of its own route's limiter unless the General
\* limiter refused it), it is admitted only if every count it raised stays
\* within the maximum, and no other step changes a count, except the timer
\* that clears it.
C21_AtomicCounters ==
    [][\A c \in Clients :
        /\ Arrival =>
            /\ hits'["general"][c] > hits["general"][c]
            /\ \A q \in {"contact", "checkout"} :
                    hits'[q][c] =
                        IF Newcomer.in.route = q /\ Newcomer.limitedBy # "general"
                        THEN hits[q][c] + 1 ELSE hits[q][c]
            /\ Newcomer.limitedBy = "none" =>
                    \A p \in Policies : hits'[p][c] > hits[p][c] => hits'[p][c] <= Max(p)
        /\ ~Arrival =>
            \A p \in Policies : hits'[p][c] = hits[p][c] \/ hits'[p][c] = 0]_vars

C21_Witness ==
    /\ \A i \in DOMAIN slots : slots[i] # Idle
    /\ Cardinality(DOMAIN slots) >= 2
    /\ last # Idle
    /\ last.limitedBy = "contact"
    /\ \E c \in Clients : hits["contact"][c] = ContactMax + 1

\* C22: while a request waits on its upstream call, a health check can arrive
\* and be answered 200 at once; a catalog read can arrive and be suspended
\* beside it where there is room; and another waiting request can have its
\* call resolve and be answered; the first request still waits, unchanged,
\* after each of these.
C22_PendingDoesNotBlock ==
    \A i \in DOMAIN slots, c \in Clients :
        slots[i] # Idle =>
            /\ UnderCap(c, "health", LimiterBurst) =>
                    ENABLED (/\ Requested({HealthReq}, LimiterBurst)
                             /\ slots' = slots
                             /\ last'.in = HealthReq
                             /\ last'.status = 200)
            /\ (UnderCap(c, "products", LimiterBurst) /\ \E j \in DOMAIN slots : slots[j] = Idle) =>
                    ENABLED (/\ Requested({ProductsReq}, LimiterBurst)
                             /\ slots'[i] = slots[i]
                             /\ \E j \in DOMAIN slots :
                                    slots[j] = Idle /\ slots'[j] # Idle /\ slots'[j].in = ProductsReq)
            /\ \A j \in DOMAIN slots \ {i} :
                    slots[j] # Idle =>
                        ENABLED (/\ Resolved({Failed})
                                 /\ slots'[i] = slots[i]
                                 /\ slots'[j] = Idle
                                 /\ last'.in = slots[j].in
                                 /\ last'.status = 500)

C22_Witness ==
    /\ \A i \in DOMAIN slots : slots[i] # Idle
    /\ Cardinality(DOMAIN slots) >= 2
    /\ last # Idle
    /\ last.in = HealthReq
    /\ last.status = 200

(***************************************************************************)
(* C23: the terminal error middleware answers with the error's own         *)
(* statusCode when it has one and with 500 otherwise, its body always has  *)
(* the error and timestamp fields, and it has a stack field exactly when   *)
(* NODE_ENV is development.                                                *)
(***************************************************************************)
C23_ErrorResponseShape ==
    res # NotSent =>
        /\ res.status = (IF err.statusCode # 0 THEN err.statusCode ELSE 500)
        /\ {"error", "timestamp"} \subseteq res.fields
        /\ ("stack" \in res.fields) <=> env.development

C23_Witness ==
    /\ res # NotSent
    /\ err.statusCode = 0
    /\ res.status = 500
    /\ env.development
    /\ "stack" \in res.fields

(***************************************************************************)
(* C24: for a string sanitizeInput returns a string of at most 500         *)
(* characters with none of < > " ' in it and no whitespace at either end;  *)
(* anything that is not a string it returns unchanged.                     *)
(***************************************************************************)
C24_SanitizedShape ==
    sanPc # "idle" /\ sanPc # "start" =>
        IF sanIn.t = "string"
        THEN /\ sanOut.t = "string"
             /\ Len(sanOut.s) <= SliceLimit
             /\ \A k \in 1..Len(sanOut.s) : sanOut.s[k] \notin StrippedChars
             /\ sanOut.s # <<>> =>
                    /\ Head(sanOut.s) \notin WhiteSpace
                    /\ sanOut.s[Len(sanOut.s)] \notin WhiteSpace
        ELSE sanOut = sanIn

\* the verification call of a contact request resolved, success flag set and
\* score above the threshold
VerifiedPass(r) ==
    /\ r.calls # <<>>
    /\ r.result.kind = "ok"
    /\ r.result.success
    /\ r.result.score > ScoreThreshold

(***************************************************************************)
(* C25: a contact request has its log record written and is acknowledged   *)
(* with 200 only after its verification call resolved with a passing       *)
(* result (success and a score above 0.5); when the call rejects or        *)
(* resolves with a failing result, no record is written and the answer is  *)
(* an error.                                                               *)
(***************************************************************************)
C25_LogAndAckOnlyAfterPass ==
    \A r \in Requests :
        r.in.route = "contact" =>
            /\ (r.logged \/ r.status = 200) => r.stage = "done" /\ VerifiedPass(r)
            /\ (r.stage = "done" /\ r.calls # <<>> /\ ~VerifiedPass(r)) =>
                    ~r.logged /\ r.status >= 400

(***************************************************************************)
(* C26: after any sequence of next, prev and goToSlide(i), i any integer,  *)
(* on a carousel with at least one item, currentIndex is one of            *)
(* 0..items.length-1 and exactly one item is active, items[currentIndex].  *)
(***************************************************************************)
C26_OneActiveSlide ==
    items >= 1 =>
        /\ currentIndex \in 0..(items - 1)
        /\ active = {currentIndex}

C26_Witness ==
    /\ items >= 2
    /\ Len(trail) >= 2
    /\ trail[Len(trail)].op = "goToSlide"
    /\ trail[Len(trail)].index < 0
    /\ trail[Len(trail) - 1].op = "goToSlide"
    /\ trail[Len(trail) - 1].index >= items
    /\ currentIndex = items - 1
    /\ active = {items - 1}

(***************************************************************************)
(* C27: navigation wraps around: next on the last slide shows slide 0,     *)
(* prev on slide 0 shows the last slide, and next then prev, or prev then  *)
(* next, shows the slide they started from.                                *)
(***************************************************************************)
C27_WrapsAround ==
    /\ trail # <<>> =>
        LET t == trail[Len(trail)] IN
            /\ (t.op = "next" /\ t.from = items - 1) => currentIndex = 0
            /\ (t.op = "prev" /\ t.from = 0) => currentIndex = items - 1
    /\ Len(trail) >= 2 =>
        LET a == trail[Len(trail) - 1]
            b == trail[Len(trail)]
        IN  ({a.op, b.op} = {"next", "prev"}) => currentIndex = a.from

C27_Witness ==
    /\ items >= 3
    /\ Len(trail) >= 2
    /\ trail[Len(trail) - 1].op = "prev"
    /\ trail[Len(trail) - 1].from = 0
    /\ trail[Len(trail)].op = "next"
    /\ trail[Len(trail)].from = items - 1
    /\ currentIndex = 0

C29_EveryOutcomeCounts ==
    [][\A c \in Clients, q \in {"contact", "checkout"} :
        /\ (Arrival /\ Newcomer.in.route = q /\ Newcomer.limitedBy # "general") =>
                /\ hits'[q][c] = hits[q][c] + 1
                /\ hits[q][c] >= Max(q) =>
                        /\ Newcomer.limitedBy = q
                        /\ Newcomer.status = 429
                        /\ Newcomer.calls = <<>>
        /\ ~Arrival => hits'[q][c] = hits[q][c] \/ hits'[q][c] = 0]_vars

C29_Witness ==
    /\ last # Idle
    /\ last.in = ContactReq(GoodToken, GoodName, GoodEmail, GoodMessage)
    /\ last.limitedBy = "contact"
    /\ last.status = 429
    /\ acks = <<>>
    /\ \A i \in DOMAIN slots : slots[i] = Idle
    /\ \E c \in Clients : hits["contact"][c] = ContactMax + 1 /\ sent["contact"][c] = ContactMax + 1

\* the fetch of the call in progress can still settle: its request or its
\* response is on the way, or the server is still working on it
CanSettle ==
    \/ net.stage \in {"request", "response"}
    \/ net.stage = "server" /\ \E i \in DOMAIN slots : slots[i] # Idle

(***************************************************************************)
(* C30: fetchWithRetry always terminates.  A call makes at most            *)
(* maxRetries + 1 fetches and the fetch it waits for can always settle; a  *)
(* response that is OK is returned at once, with no further fetch; a       *)
(* further fetch is made only after a response that is not OK or a         *)
(* rejected fetch, and only while retries < maxRetries; with the retries   *)
(* used up the call returns the last response, not OK, or throws the last  *)
(* error; and a call that has ended makes no further step.                 *)
(***************************************************************************)
C30_FetchWithRetryTerminates ==
    [][/\ cli'.fetches <= maxRetries + 1
       /\ cli'.pc = "fetching" => CanSettle'
       /\ cli'.fetches # cli.fetches =>
            /\ cli'.fetches = cli.fetches + 1
            /\ cli'.pc = "fetching"
            /\ \/ cli.pc = "idle" /\ cli'.retries = 0
               \/ cli.pc = "backoff" /\ cli.retries < maxRetries /\ cli'.retries = cli.retries + 1
       /\ cli'.pc = "backoff" =>
            cli.pc = "fetching" /\ cli.retries < maxRetries /\ net # NoExchange /\ net' = NoExchange
       /\ (cli.pc = "fetching" /\ net.stage = "response" /\ Ok(net.status) /\ cli'.outcome = "response") =>
            cli'.pc = "done"
       /\ (cli.pc # "done" /\ cli'.pc = "done") =>
            /\ cli.pc = "fetching"
            /\ net.stage = "response"
            /\ Ok(net.status)
            /\ cli'.outcome = "response"
            /\ cli'.status = net.status
            /\ cli'.fetches = cli.fetches
       /\ (cli.pc = "fetching" /\ cli'.pc = "failed") =>
            /\ cli.retries = maxRetries
            /\ \/ cli'.outcome = "error"
               \/ cli'.outcome = "response" /\ cli'.status = net.status /\ ~Ok(net.status)
       /\ cli.pc \in {"done", "failed"} => cli' = cli]_vars

====
